---- MODULE Spec2Model ----
(***************************************************************************)
(* The FAQPage validation rules engine of week_1/faq-generator:            *)
(* SchemaValidator.validate_schema and its three passes                    *)
(* (_validate_structure, _validate_content, _validate_seo_practices),      *)
(* validate_with_google and get_validation_summary.                        *)
(* SchemaGenerator.generate_schema is modelled for the documents it hands  *)
(* to the validator.                                                       *)
(*                                                                         *)
(* Python values are tagged records; a str is the sequence of its          *)
(* characters, a dict is a function from its keys to values, and a call    *)
(* that can raise yields Ok(value) or Raise(message).                      *)
(***************************************************************************)
EXTENDS Integers, Sequences, FiniteSets, TLC

VARIABLES
  document,    \* the document the caller holds and passes as `schema`
  outcome,     \* of the latest call: "idle" (none yet), "returned" or "raised"
  report,      \* the dict the latest validate_schema call returned
  calls,       \* validate_schema calls made on the document since it was supplied
  supplies,    \* documents the caller has moved on to
  first_call,  \* the first document validated and the report it got
  google_outcome,  \* of validate_with_google on the document: "idle" or "returned"
  google_results,  \* the dict the latest validate_with_google call returned
  summary,     \* the str the latest get_validation_summary call returned
  validator,   \* the attributes of the SchemaValidator the caller uses
  heap,        \* the dicts returned for the document: object |-> contents
  report_ref,  \* the object the latest validate_schema call returned
  google_ref,  \* the object the latest validate_with_google call returned
  generation   \* the generate_schema call that made the document, if any

vars == <<document, outcome, report, calls, supplies, first_call,
          google_outcome, google_results, summary,
          validator, heap, report_ref, google_ref, generation>>

----------------------------------------------------------------------------
(* Bounds of the model *)

\* longest mainEntity list built from the core entities
MaxEntities == 3
\* text lengths are taken up to this far on each side of a length threshold
Slack == 1
\* calls of one entry point counted on one supplied document
MaxCalls == 2
\* FAQs in the lists handed to generate_schema
MaxFaqs == 2
\* times the caller moves on to another document
MaxSupplies == 2

----------------------------------------------------------------------------
(* Python values *)

PyNone == [t |-> "none"]
PyStr(s) == [t |-> "str", s |-> s]
PyInt(n) == [t |-> "int", n |-> n]
PyList(l) == [t |-> "list", l |-> l]
PyDict(d) == [t |-> "dict", d |-> d]

\* type(v).__name__, as it appears in the interpreter's error messages
TypeName(v) ==
  CASE v.t = "none" -> "NoneType"
    [] v.t = "str" -> "str"
    [] v.t = "int" -> "int"
    [] v.t = "list" -> "list"
    [] v.t = "dict" -> "dict"

\* outcome of an evaluation that may raise
Ok(v) == [raised |-> FALSE, value |-> v, error |-> ""]
Raise(e) == [raised |-> TRUE, value |-> <<>>, error |-> e]
Then(x, F(_)) == IF x.raised THEN x ELSE F(x.value)

\* the characters of the keys and str literals the validator names
Chars ==
  [k \in {"@context", "@type", "mainEntity", "name", "description",
          "acceptedAnswer", "text", "https://schema.org", "FAQPage",
          "Question", "Answer", "what", "how", "when", "where", "why",
          "who"} |->
     CASE k = "@context" -> <<"@", "c", "o", "n", "t", "e", "x", "t">>
       [] k = "@type" -> <<"@", "t", "y", "p", "e">>
       [] k = "mainEntity" -> <<"m", "a", "i", "n", "E", "n", "t", "i", "t", "y">>
       [] k = "name" -> <<"n", "a", "m", "e">>
       [] k = "description" -> <<"d", "e", "s", "c", "r", "i", "p", "t", "i", "o", "n">>
       [] k = "acceptedAnswer" -> <<"a", "c", "c", "e", "p", "t", "e", "d", "A", "n", "s", "w", "e", "r">>
       [] k = "text" -> <<"t", "e", "x", "t">>
       [] k = "https://schema.org" ->
            <<"h", "t", "t", "p", "s", ":", "/", "/", "s", "c", "h", "e", "m", "a", ".", "o", "r", "g">>
       [] k = "FAQPage" -> <<"F", "A", "Q", "P", "a", "g", "e">>
       [] k = "Question" -> <<"Q", "u", "e", "s", "t", "i", "o", "n">>
       [] k = "Answer" -> <<"A", "n", "s", "w", "e", "r">>
       [] k = "what" -> <<"w", "h", "a", "t">>
       [] k = "how" -> <<"h", "o", "w">>
       [] k = "when" -> <<"w", "h", "e", "n">>
       [] k = "where" -> <<"w", "h", "e", "r", "e">>
       [] k = "why" -> <<"w", "h", "y">>
       [] k = "who" -> <<"w", "h", "o">>]

\* a str literal of the source as a value
Lit(k) == PyStr(Chars[k])

\* dict keys in a fixed iteration order
KeyOrder == <<"@context", "@type", "mainEntity", "name", "description",
              "acceptedAnswer", "text">>

----------------------------------------------------------------------------
(* str methods *)

UpperCase == <<"A", "B", "C", "D", "E", "F", "G", "H", "I", "J", "K", "L", "M",
               "N", "O", "P", "Q", "R", "S", "T", "U", "V", "W", "X", "Y", "Z">>
LowerCase == <<"a", "b", "c", "d", "e", "f", "g", "h", "i", "j", "k", "l", "m",
               "n", "o", "p", "q", "r", "s", "t", "u", "v", "w", "x", "y", "z">>

IsSpace(c) == c \in {" ", "\t", "\n"}

LowerChar(c) ==
  IF \E i \in 1..26 : UpperCase[i] = c
  THEN LowerCase[CHOOSE i \in 1..26 : UpperCase[i] = c]
  ELSE c

\* s.lower()
lower(s) == [i \in 1..Len(s) |-> LowerChar(s[i])]

\* s.strip(), used for its truth value only: empty iff every character is whitespace
strip(s) == SelectSeq(s, LAMBDA c : ~IsSpace(c))

RECURSIVE SplitFrom(_, _, _, _)
SplitFrom(s, i, cur, acc) ==
  IF i > Len(s) THEN (IF cur = <<>> THEN acc ELSE Append(acc, cur))
  ELSE IF IsSpace(s[i])
       THEN SplitFrom(s, i + 1, <<>>, IF cur = <<>> THEN acc ELSE Append(acc, cur))
       ELSE SplitFrom(s, i + 1, Append(cur, s[i]), acc)

\* s.split(): the maximal runs of non-whitespace characters
split(s) == SplitFrom(s, 1, <<>>, <<>>)

\* s.startswith(p)
startswith(s, p) == Len(s) >= Len(p) /\ SubSeq(s, 1, Len(p)) = p

\* `sub in s` on two strs
IsSubstring(sub, s) ==
  \E i \in 0..(Len(s) - Len(sub)) : SubSeq(s, i + 1, i + Len(sub)) = sub

----------------------------------------------------------------------------
(* Operations on containers *)

\* `key in container`
Contains(container, key) ==
  CASE container.t = "dict" -> Ok(key \in DOMAIN container.d)
    [] container.t = "str" -> Ok(IsSubstring(Chars[key], container.s))
    [] container.t = "list" ->
         Ok(\E i \in 1..Len(container.l) : container.l[i] = PyStr(Chars[key]))
    [] OTHER -> Raise("argument of type '" \o TypeName(container) \o "' is not iterable")

\* container[key] with a str key
Subscript(container, key) ==
  CASE container.t = "dict" ->
         IF key \in DOMAIN container.d THEN Ok(container.d[key])
         ELSE Raise("'" \o key \o "'")
    [] container.t = "str" -> Raise("string indices must be integers, not 'str'")
    [] container.t = "list" -> Raise("list indices must be integers or slices, not str")
    [] OTHER -> Raise("'" \o TypeName(container) \o "' object is not subscriptable")

\* container.get(key, default)
Get(container, key, default) ==
  IF container.t = "dict"
  THEN Ok(IF key \in DOMAIN container.d THEN container.d[key] ELSE default)
  ELSE Raise("'" \o TypeName(container) \o "' object has no attribute 'get'")

\* the elements `for x in v` visits, in order
Iter(v) ==
  CASE v.t = "list" -> Ok(v.l)
    [] v.t = "str" -> Ok([i \in 1..Len(v.s) |-> PyStr(<<v.s[i]>>)])
    [] v.t = "dict" ->
         Ok([i \in 1..Len(SelectSeq(KeyOrder, LAMBDA k : k \in DOMAIN v.d)) |->
               PyStr(Chars[SelectSeq(KeyOrder, LAMBDA k : k \in DOMAIN v.d)[i]])])
    [] OTHER -> Raise("'" \o TypeName(v) \o "' object is not iterable")

\* len(v)
PyLen(v) ==
  CASE v.t = "list" -> Ok(Len(v.l))
    [] v.t = "str" -> Ok(Len(v.s))
    [] v.t = "dict" -> Ok(Cardinality(DOMAIN v.d))
    [] OTHER -> Raise("object of type '" \o TypeName(v) \o "' has no len()")

\* v.lower() of a value that is expected to be a str
Lower(v) ==
  IF v.t = "str" THEN Ok(lower(v.s))
  ELSE Raise("'" \o TypeName(v) \o "' object has no attribute 'lower'")

\* set(seq): raises on the first unhashable element
Hashable(v) == v.t \notin {"list", "dict"}
SetOf(seq) ==
  IF \A i \in 1..Len(seq) : Hashable(seq[i])
  THEN Ok({seq[i] : i \in 1..Len(seq)})
  ELSE Raise("unhashable type: '" \o
             TypeName(seq[CHOOSE i \in 1..Len(seq) :
                            /\ ~Hashable(seq[i])
                            /\ \A j \in 1..(i - 1) : Hashable(seq[j])]) \o "'")

----------------------------------------------------------------------------
(* SchemaValidator._validate_question_entity *)

\* ValidateName that takes a name of 10 characters for a very short one
ValidateNameInclusive(entity, index) ==
  LET prefix == "Question " \o ToString(index) \o ": "
      name == entity.d["name"]
  IN IF "name" \notin DOMAIN entity.d THEN [issues |-> <<>>, warnings |-> <<>>]
     ELSE IF name.t # "str" \/ strip(name.s) = <<>>
       THEN [issues |-> <<prefix \o "'name' must be a non-empty string">>,
             warnings |-> <<>>]
     ELSE IF Len(name.s) <= 10
       THEN [issues |-> <<>>, warnings |-> <<prefix \o "Question is very short">>]
     ELSE IF Len(name.s) > 200
       THEN [issues |-> <<>>, warnings |-> <<prefix \o "Question is very long">>]
     ELSE [issues |-> <<>>, warnings |-> <<>>]

\* the name checks of one entity: <<issues, warnings>> added for entity['name']
ValidateName(entity, index) ==
  LET prefix == "Question " \o ToString(index) \o ": "
      name == entity.d["name"]
  IN IF "name" \notin DOMAIN entity.d THEN [issues |-> <<>>, warnings |-> <<>>]
     ELSE IF name.t # "str" \/ strip(name.s) = <<>>
       THEN [issues |-> <<prefix \o "'name' must be a non-empty string">>,
             warnings |-> <<>>]
     ELSE IF Len(name.s) < 10
       THEN [issues |-> <<>>, warnings |-> <<prefix \o "Question is very short">>]
     ELSE IF Len(name.s) > 200
       THEN [issues |-> <<>>, warnings |-> <<prefix \o "Question is very long">>]
     ELSE [issues |-> <<>>, warnings |-> <<>>]

\* ValidateAnswerText that takes a text of 1000 characters for a very long one
ValidateAnswerTextInclusive(answer, index) ==
  LET prefix == "Question " \o ToString(index) \o ": "
      text == answer.d["text"]
  IN IF "text" \notin DOMAIN answer.d
       THEN [issues |-> <<prefix \o "acceptedAnswer missing 'text' field">>,
             warnings |-> <<>>]
     ELSE IF text.t # "str" \/ strip(text.s) = <<>>
       THEN [issues |-> <<prefix \o "acceptedAnswer text must be non-empty">>,
             warnings |-> <<>>]
     ELSE IF Len(text.s) < 20
       THEN [issues |-> <<>>, warnings |-> <<prefix \o "Answer is very short">>]
     ELSE IF Len(text.s) >= 1000
       THEN [issues |-> <<>>, warnings |-> <<prefix \o "Answer is very long">>]
     ELSE [issues |-> <<>>, warnings |-> <<>>]

\* the checks of answer['text'] once acceptedAnswer is known to be a dict
ValidateAnswerText(answer, index) ==
  LET prefix == "Question " \o ToString(index) \o ": "
      text == answer.d["text"]
  IN IF "text" \notin DOMAIN answer.d
       THEN [issues |-> <<prefix \o "acceptedAnswer missing 'text' field">>,
             warnings |-> <<>>]
     ELSE IF text.t # "str" \/ strip(text.s) = <<>>
       THEN [issues |-> <<prefix \o "acceptedAnswer text must be non-empty">>,
             warnings |-> <<>>]
     ELSE IF Len(text.s) < 20
       THEN [issues |-> <<>>, warnings |-> <<prefix \o "Answer is very short">>]
     ELSE IF Len(text.s) > 1000
       THEN [issues |-> <<>>, warnings |-> <<prefix \o "Answer is very long">>]
     ELSE [issues |-> <<>>, warnings |-> <<>>]

\* ValidateAnswer that does not look at the type of the answer
ValidateAnswerNoType(entity, index) ==
  LET prefix == "Question " \o ToString(index) \o ": "
      answer == entity.d["acceptedAnswer"]
      text_results == ValidateAnswerText(answer, index)
  IN IF "acceptedAnswer" \notin DOMAIN entity.d
       THEN [issues |-> <<>>, warnings |-> <<>>]
     ELSE IF answer.t # "dict"
       THEN [issues |-> <<prefix \o "acceptedAnswer must be a dictionary">>,
             warnings |-> <<>>]
     ELSE [issues |-> text_results.issues, warnings |-> text_results.warnings]

\* the acceptedAnswer checks of one entity
ValidateAnswer(entity, index) ==
  LET prefix == "Question " \o ToString(index) \o ": "
      answer == entity.d["acceptedAnswer"]
      text_results == ValidateAnswerText(answer, index)
  IN IF "acceptedAnswer" \notin DOMAIN entity.d
       THEN [issues |-> <<>>, warnings |-> <<>>]
     ELSE IF answer.t # "dict"
       THEN [issues |-> <<prefix \o "acceptedAnswer must be a dictionary">>,
             warnings |-> <<>>]
     ELSE [issues |->
             (IF Get(answer, "@type", PyNone).value # Lit("Answer")
              THEN <<prefix \o "acceptedAnswer @type must be 'Answer'">>
              ELSE <<>>) \o text_results.issues,
           warnings |-> text_results.warnings]

_validate_question_entity(entity, index) ==
  LET prefix == "Question " \o ToString(index) \o ": "
      required_fields == <<"@type", "name", "acceptedAnswer">>
      first_in == Contains(entity, required_fields[1])
      missing == SelectSeq(required_fields,
                           LAMBDA field : ~Contains(entity, field).value)
      type == Get(entity, "@type", PyNone)
      name_results == ValidateName(entity, index)
      answer_results == ValidateAnswer(entity, index)
  IN IF first_in.raised THEN first_in
     ELSE IF type.raised THEN type
     ELSE Ok([issues |->
                [i \in 1..Len(missing) |->
                   prefix \o "Missing required field '" \o missing[i] \o "'"]
                \o (IF type.value # Lit("Question")
                    THEN <<prefix \o "@type must be 'Question'">> ELSE <<>>)
                \o name_results.issues \o answer_results.issues,
              warnings |-> name_results.warnings \o answer_results.warnings])

----------------------------------------------------------------------------
(* SchemaValidator._validate_structure *)

\* RequiredFields with a loop that stops at the first missing key
RequiredFieldsFirstOnly(schema, res) ==
  LET required_fields == <<"@context", "@type", "mainEntity">>
      first_in == Contains(schema, required_fields[1])
      missing == SelectSeq(required_fields,
                           LAMBDA field : ~Contains(schema, field).value)
  IN IF first_in.raised THEN first_in
     ELSE IF missing = <<>> THEN Ok(res)
     ELSE Ok([res EXCEPT
                !.issues = Append(@, "Missing required field: " \o missing[1]),
                !.valid = FALSE])

\* the required-field loop over the top-level keys
RequiredFields(schema, res) ==
  LET required_fields == <<"@context", "@type", "mainEntity">>
      first_in == Contains(schema, required_fields[1])
      missing == SelectSeq(required_fields,
                           LAMBDA field : ~Contains(schema, field).value)
  IN IF first_in.raised THEN first_in
     ELSE IF missing = <<>> THEN Ok(res)
     ELSE Ok([res EXCEPT
                !.issues = @ \o [i \in 1..Len(missing) |->
                                   "Missing required field: " \o missing[i]],
                !.valid = FALSE])

\* ValidateContext with the mismatch recorded as an issue
ValidateContextAsIssue(schema, res) ==
  IF ~Contains(schema, "@context").value THEN Ok(res)
  ELSE Then(Subscript(schema, "@context"), LAMBDA context :
         IF context # Lit("https://schema.org")
         THEN Ok([res EXCEPT !.issues =
                    Append(@, "@context should be 'https://schema.org'"),
                             !.valid = FALSE])
         ELSE Ok(res))

\* the @context check: a mismatch is a warning
ValidateContext(schema, res) ==
  IF ~Contains(schema, "@context").value THEN Ok(res)
  ELSE Then(Subscript(schema, "@context"), LAMBDA context :
         IF context # Lit("https://schema.org")
         THEN Ok([res EXCEPT !.warnings =
                    Append(@, "@context should be 'https://schema.org'")])
         ELSE Ok(res))

\* the @type check: a mismatch is an issue
ValidateType(schema, res) ==
  IF ~Contains(schema, "@type").value THEN Ok(res)
  ELSE Then(Subscript(schema, "@type"), LAMBDA type :
         IF type # Lit("FAQPage")
         THEN Ok([res EXCEPT !.issues = Append(@, "@type must be 'FAQPage'"),
                             !.valid = FALSE])
         ELSE Ok(res))

\* the loop over enumerate(main_entity), from position i (1-based) on
RECURSIVE EntityLoop(_, _, _)
EntityLoop(main_entity, i, res) ==
  IF i > Len(main_entity) THEN Ok(res)
  ELSE Then(_validate_question_entity(main_entity[i], i - 1),
            LAMBDA entity_results :
              EntityLoop(main_entity, i + 1,
                         [res EXCEPT !.issues = @ \o entity_results.issues,
                                     !.warnings = @ \o entity_results.warnings]))

\* the mainEntity check
ValidateMainEntity(schema, res) ==
  IF ~Contains(schema, "mainEntity").value THEN Ok(res)
  ELSE Then(Subscript(schema, "mainEntity"), LAMBDA main_entity :
         IF main_entity.t # "list"
           THEN Ok([res EXCEPT !.issues = Append(@, "mainEntity must be a list"),
                               !.valid = FALSE])
         ELSE IF Len(main_entity.l) = 0
           THEN Ok([res EXCEPT !.issues = Append(@, "mainEntity cannot be empty"),
                               !.valid = FALSE])
         ELSE EntityLoop(main_entity.l, 1, res))

_validate_structure(schema) ==
  Then(RequiredFields(schema, [valid |-> TRUE, issues |-> <<>>, warnings |-> <<>>]),
       LAMBDA r1 :
         Then(ValidateContext(schema, r1), LAMBDA r2 :
           Then(ValidateType(schema, r2), LAMBDA r3 :
             ValidateMainEntity(schema, r3))))

----------------------------------------------------------------------------
(* SchemaValidator._validate_content *)

\* [entity.get('name', '') for entity in main_entity if isinstance(entity, dict)]
Questions(elements) ==
  LET dicts == SelectSeq(elements, LAMBDA entity : entity.t = "dict")
  IN [i \in 1..Len(dicts) |-> Get(dicts[i], "name", PyStr(<<>>)).value]

\* the duplicate check: len(questions) != len(set(questions))
CheckDuplicates(questions, res) ==
  Then(SetOf(questions), LAMBDA distinct :
    IF Len(questions) # Cardinality(distinct)
    THEN Ok([res EXCEPT !.warnings = Append(@, "Duplicate questions found")])
    ELSE Ok(res))

\* the question_words loop: entity['name'].lower().split() of every dict
\* entity that has a name; raises at the first name that has no lower()
QuestionWords(elements) ==
  LET named == SelectSeq(elements,
                 LAMBDA entity : entity.t = "dict" /\ "name" \in DOMAIN entity.d)
      bad == {i \in 1..Len(named) : Lower(named[i].d["name"]).raised}
  IN IF bad = {} THEN Ok(named)
     ELSE Lower(named[CHOOSE i \in bad : \A j \in bad : i <= j].d["name"])

\* the starter check, entered when len(main_entity) >= 3
CheckDiversity(elements, questions, res) ==
  IF Len(elements) >= 3
  THEN Then(QuestionWords(elements), LAMBDA named :
         LET tokens == SelectSeq([i \in 1..Len(questions) |-> split(questions[i].s)],
                                 LAMBDA words : words # <<>>)
             starters == [i \in 1..Len(tokens) |-> tokens[i][1]]
         IN IF 10 * Cardinality({starters[i] : i \in 1..Len(starters)})
                 < 7 * Len(starters)
            THEN Ok([res EXCEPT !.suggestions =
                       Append(@, "Consider varying question starters for better diversity")])
            ELSE Ok(res))
  ELSE Ok(res)

\* AnswerLoop that names the entities by their 0-based index
RECURSIVE AnswerLoopZeroBased(_, _, _)
AnswerLoopZeroBased(elements, i, res) ==
  IF i > Len(elements) THEN Ok(res)
  ELSE LET entity == elements[i]
           answer == entity.d["acceptedAnswer"]
       IN IF /\ entity.t = "dict"
             /\ "acceptedAnswer" \in DOMAIN entity.d
             /\ answer.t = "dict"
             /\ "text" \in DOMAIN answer.d
          THEN Then(PyLen(answer.d["text"]), LAMBDA n :
                 AnswerLoopZeroBased(elements, i + 1,
                   IF n < 50
                   THEN [res EXCEPT !.suggestions =
                           Append(@, "Question " \o ToString(i - 1)
                                     \o ": Consider expanding the answer for better value")]
                   ELSE res))
          ELSE AnswerLoopZeroBased(elements, i + 1, res)

\* the answer-quality loop over enumerate(main_entity), from position i on
RECURSIVE AnswerLoop(_, _, _)
AnswerLoop(elements, i, res) ==
  IF i > Len(elements) THEN Ok(res)
  ELSE LET entity == elements[i]
           answer == entity.d["acceptedAnswer"]
       IN IF /\ entity.t = "dict"
             /\ "acceptedAnswer" \in DOMAIN entity.d
             /\ answer.t = "dict"
             /\ "text" \in DOMAIN answer.d
          THEN Then(PyLen(answer.d["text"]), LAMBDA n :
                 AnswerLoop(elements, i + 1,
                   IF n < 50
                   THEN [res EXCEPT !.suggestions =
                           Append(@, "Question " \o ToString(i)
                                     \o ": Consider expanding the answer for better value")]
                   ELSE res))
          ELSE AnswerLoop(elements, i + 1, res)

_validate_content(schema) ==
  Then(Get(schema, "mainEntity", PyList(<<>>)), LAMBDA main_entity :
    Then(Iter(main_entity), LAMBDA elements :
      Then(CheckDuplicates(Questions(elements),
                           [issues |-> <<>>, warnings |-> <<>>, suggestions |-> <<>>]),
           LAMBDA r1 :
             Then(CheckDiversity(elements, Questions(elements), r1), LAMBDA r2 :
               AnswerLoop(elements, 1, r2)))))

----------------------------------------------------------------------------
(* SchemaValidator._validate_seo_practices *)

\* the two metadata suggestions
CheckMetadata(schema, res) ==
  LET s1 == IF ~Contains(schema, "name").value
            THEN <<"Consider adding a 'name' field for the FAQ page">> ELSE <<>>
      s2 == IF ~Contains(schema, "description").value
            THEN <<"Consider adding a 'description' field for better SEO">> ELSE <<>>
  IN [res EXCEPT !.suggestions = @ \o s1 \o s2]

\* CheckQuestionCount without the lower bound
CheckQuestionCountNoMinimum(n, res) ==
  IF n > 10
  THEN [res EXCEPT !.warnings =
          Append(@, "Consider limiting to 10 questions to avoid overwhelming users")]
  ELSE res

\* CheckQuestionCount that takes 10 questions for too many
CheckQuestionCountInclusive(n, res) ==
  IF n < 3
  THEN [res EXCEPT !.warnings =
          Append(@, "FAQ pages should have at least 3 questions for best SEO results")]
  ELSE IF n >= 10
  THEN [res EXCEPT !.warnings =
          Append(@, "Consider limiting to 10 questions to avoid overwhelming users")]
  ELSE res

\* the question count check
CheckQuestionCount(n, res) ==
  IF n < 3
  THEN [res EXCEPT !.warnings =
          Append(@, "FAQ pages should have at least 3 questions for best SEO results")]
  ELSE IF n > 10
  THEN [res EXCEPT !.warnings =
          Append(@, "Consider limiting to 10 questions to avoid overwhelming users")]
  ELSE res

common_patterns == <<"what", "how", "when", "where", "why", "who">>

\* sum(1 for q in questions for pattern in common_patterns
\*     if q.lower().startswith(pattern))
PatternCount(questions) ==
  Cardinality({<<i, j>> \in (1..Len(questions)) \X (1..Len(common_patterns)) :
                 startswith(lower(questions[i].s), Chars[common_patterns[j]])})

\* the question-pattern check
CheckPatterns(questions, res) ==
  LET bad == {i \in 1..Len(questions) : Lower(questions[i]).raised}
  IN IF questions = <<>> THEN Ok(res)
     ELSE IF bad # {} THEN Lower(questions[CHOOSE i \in bad : \A j \in bad : i <= j])
     ELSE IF 2 * PatternCount(questions) < Len(questions)
       THEN Ok([res EXCEPT !.suggestions =
                  Append(@, "Consider using more common question patterns (What, How, When, etc.)")])
     ELSE Ok(res)

_validate_seo_practices(schema) ==
  Then(Contains(schema, "name"), LAMBDA has_name :
    Then(Get(schema, "mainEntity", PyList(<<>>)), LAMBDA main_entity :
      Then(PyLen(main_entity), LAMBDA n :
        Then(Iter(main_entity), LAMBDA elements :
          CheckPatterns(Questions(elements),
                        CheckQuestionCount(n,
                          CheckMetadata(schema,
                            [warnings |-> <<>>, suggestions |-> <<>>])))))))

----------------------------------------------------------------------------
(* SchemaValidator.validate_schema *)

\* the report as first assigned, before any pass runs
NewResults ==
  [valid |-> TRUE, issues |-> <<>>, warnings |-> <<>>, suggestions |-> <<>>,
   google_validation |-> PyNone]

\* results.update(structure_results)
Update(res, structure_results) ==
  [res EXCEPT !.valid = structure_results.valid,
              !.issues = structure_results.issues,
              !.warnings = structure_results.warnings]

\* the three extend calls that merge the content results
ExtendContent(res, content_results) ==
  [res EXCEPT !.issues = @ \o content_results.issues,
              !.warnings = @ \o content_results.warnings,
              !.suggestions = @ \o content_results.suggestions]

\* ExtendSeo that puts the SEO results in front of what is already there
ExtendSeoFirst(res, seo_results) ==
  [res EXCEPT !.warnings = seo_results.warnings \o @,
              !.suggestions = seo_results.suggestions \o @]

\* the two extend calls that merge the SEO results
ExtendSeo(res, seo_results) ==
  [res EXCEPT !.warnings = @ \o seo_results.warnings,
              !.suggestions = @ \o seo_results.suggestions]

\* UpdateValidity that leaves the flag as the structural pass set it
UpdateValidityNever(res) == res

\* if results['issues']: results['valid'] = False
UpdateValidity(res) ==
  IF res.issues # <<>> THEN [res EXCEPT !.valid = FALSE] ELSE res

\* ExceptHandler that lets the error go on to the caller
ExceptHandlerReraise(res, e) == Raise(e)

\* ExceptHandler that reports the failure in a report of its own
ExceptHandlerFresh(res, e) ==
  Ok([NewResults EXCEPT !.valid = FALSE,
                        !.issues = <<"Validation error: " \o e>>])

\* the except clause: the report as it stands, invalidated, plus one issue
ExceptHandler(res, e) ==
  Ok([res EXCEPT !.valid = FALSE,
                 !.issues = Append(@, "Validation error: " \o e)])

validate_schema(schema) ==
  LET structure_results == _validate_structure(schema)
      r1 == Update(NewResults, structure_results.value)
      content_results == _validate_content(schema)
      r2 == ExtendContent(r1, content_results.value)
      seo_results == _validate_seo_practices(schema)
      r3 == ExtendSeo(r2, seo_results.value)
  IN IF structure_results.raised
       THEN ExceptHandler(NewResults, structure_results.error)
     ELSE IF content_results.raised
       THEN ExceptHandler(r1, content_results.error)
     ELSE IF seo_results.raised
       THEN ExceptHandler(r2, seo_results.error)
     ELSE Ok(UpdateValidity(r3))

----------------------------------------------------------------------------
(* SchemaValidator.validate_with_google *)

\* the results dict as first assigned
NewGoogleResults ==
  [valid |-> TRUE, issues |-> <<>>, warnings |-> <<>>, rich_results |-> TRUE]

\* results['valid'] = False; results['issues'].append(message)
GoogleFail(res, message) ==
  [res EXCEPT !.valid = FALSE, !.issues = Append(@, message)]

\* an evaluation that raises after it has filled the results dict up to res
RaiseIn(res, e) == [raised |-> TRUE, value |-> res, error |-> e]

\* bool(v), as `not v` takes it
Truthy(v) ==
  CASE v.t = "none" -> FALSE
    [] v.t = "str" -> v.s # <<>>
    [] v.t = "int" -> v.n # 0
    [] v.t = "list" -> v.l # <<>>
    [] v.t = "dict" -> DOMAIN v.d # {}

\* the body of the loop for the entity at position i (1-based)
GoogleCheckEntity(entity, i, res) ==
  LET question == "Question " \o ToString(i)
      r1 == IF Get(entity, "@type", PyNone).value # Lit("Question")
            THEN GoogleFail(res, question \o " has invalid type") ELSE res
      r2 == IF ~Truthy(Get(entity, "name", PyNone).value)
            THEN GoogleFail(r1, question \o " missing question text") ELSE r1
      answer == Get(entity, "acceptedAnswer", PyDict(<<>>)).value
      r3 == IF answer.t # "dict" \/ Get(answer, "@type", PyNone).value # Lit("Answer")
            THEN GoogleFail(r2, question \o " has invalid answer format") ELSE r2
      text == Get(answer, "text", PyNone)
  IN IF entity.t # "dict"
       THEN Ok(GoogleFail(res, question \o " is not properly formatted"))
     ELSE IF text.raised THEN RaiseIn(r3, text.error)
     ELSE IF ~Truthy(text.value)
       THEN Ok(GoogleFail(r3, question \o " missing answer text"))
     ELSE Ok(r3)

\* the loop over enumerate(main_entity), from position i (1-based) on
RECURSIVE GoogleLoop(_, _, _)
GoogleLoop(elements, i, res) ==
  IF i > Len(elements) THEN Ok(res)
  ELSE Then(GoogleCheckEntity(elements[i], i, res),
            LAMBDA r : GoogleLoop(elements, i + 1, r))

\* the rich results eligibility check that follows the loop
RichResults(res, n) ==
  IF res.valid /\ n >= 3
  THEN [res EXCEPT !.rich_results = TRUE,
                   !.warnings = Append(@, "Schema is eligible for rich results")]
  ELSE [res EXCEPT !.rich_results = FALSE,
                   !.warnings = Append(@, "Schema may not be eligible for rich results")]

\* GoogleMainEntity that wants three questions before it looks at any
GoogleMainEntityThree(schema, res) ==
  LET main_entity == Get(schema, "mainEntity", PyList(<<>>)).value
      n == PyLen(main_entity)
  IN IF n.raised THEN RaiseIn(res, n.error)
     ELSE IF n.value < 3 THEN Ok(GoogleFail(res, "No questions found"))
     ELSE Then(GoogleLoop(Iter(main_entity).value, 1, res),
               LAMBDA r : Ok(RichResults(r, n.value)))

\* the part of the try block that follows the page type check
GoogleMainEntity(schema, res) ==
  LET main_entity == Get(schema, "mainEntity", PyList(<<>>)).value
      n == PyLen(main_entity)
  IN IF n.raised THEN RaiseIn(res, n.error)
     ELSE IF n.value < 1 THEN Ok(GoogleFail(res, "No questions found"))
     ELSE Then(GoogleLoop(Iter(main_entity).value, 1, res),
               LAMBDA r : Ok(RichResults(r, n.value)))

\* GoogleExceptHandler that adds the issue and leaves the flag as it stands
GoogleExceptHandlerKeepsValid(res, e) ==
  [res EXCEPT !.issues = Append(@, "Validation error: " \o e)]

\* the except clause: the results dict as it stands, invalidated, plus one issue
GoogleExceptHandler(res, e) == GoogleFail(res, "Validation error: " \o e)

\* validate_with_google that goes on to the entities of a page of another type
validate_with_google_unstopped(schema) ==
  LET type == Get(schema, "@type", PyNone)
      r == GoogleMainEntity(schema,
             IF type.value # Lit("FAQPage")
             THEN GoogleFail(NewGoogleResults,
                             "Schema type not supported for rich results")
             ELSE NewGoogleResults)
  IN IF type.raised THEN Ok(GoogleExceptHandler(NewGoogleResults, type.error))
     ELSE IF r.raised THEN Ok(GoogleExceptHandler(r.value, r.error))
     ELSE Ok(r.value)

validate_with_google(schema) ==
  LET type == Get(schema, "@type", PyNone)
      r == GoogleMainEntity(schema, NewGoogleResults)
  IN IF type.raised THEN Ok(GoogleExceptHandler(NewGoogleResults, type.error))
     ELSE IF type.value # Lit("FAQPage")
       THEN Ok(GoogleFail(NewGoogleResults,
                          "Schema type not supported for rich results"))
     ELSE IF r.raised THEN Ok(GoogleExceptHandler(r.value, r.error))
     ELSE Ok(r.value)

----------------------------------------------------------------------------
(* SchemaValidator.get_validation_summary *)

\* The source marks each line with characters outside ASCII; the marks are
\* written here by name.
ValidLine == "[check] Schema is valid and ready for use!"
ErrorLine == "[cross] Schema has validation errors"
IssuesHeader == "\n[alarm] Issues found:"
WarningsHeader == "\n[warning] Warnings:"
SuggestionsHeader == "\n[bulb] Suggestions:"
Bullet == "  [bullet] "

\* SummaryBlock that writes the header of an empty category too
SummaryBlockAlways(summary_parts, header, items) ==
  summary_parts \o <<header>> \o [i \in 1..Len(items) |-> Bullet \o items[i]]

\* if items: append the header, then one bullet line per item
SummaryBlock(summary_parts, header, items) ==
  IF items # <<>>
  THEN summary_parts \o <<header>> \o [i \in 1..Len(items) |-> Bullet \o items[i]]
  ELSE summary_parts

\* "\n".join(parts)
RECURSIVE Join(_)
Join(parts) ==
  IF parts = <<>> THEN ""
  ELSE IF Len(parts) = 1 THEN parts[1]
  ELSE parts[1] \o "\n" \o Join(Tail(parts))

get_validation_summary(validation_results) ==
  LET p1 == <<IF validation_results.valid THEN ValidLine ELSE ErrorLine>>
      p2 == SummaryBlock(p1, IssuesHeader, validation_results.issues)
      p3 == SummaryBlock(p2, WarningsHeader, validation_results.warnings)
      p4 == SummaryBlock(p3, SuggestionsHeader, validation_results.suggestions)
  IN Join(p4)

----------------------------------------------------------------------------
(* The documents the callers supply *)

\* the str of length n that starts with head and is filled up with "x"
Padded(head, n) == head \o [i \in 1..(n - Len(head)) |-> "x"]

\* a dict from the keys at which value is present
Absent == [t |-> "absent"]
DictOf(keys, value) ==
  PyDict([k \in {key \in keys : value[key] # Absent} |-> value[k]])

Answer(type, text) ==
  DictOf({"@type", "text"}, [k \in {"@type", "text"} |->
                               IF k = "@type" THEN type ELSE text])

Entity(type, name, answer) ==
  DictOf({"@type", "name", "acceptedAnswer"},
         [k \in {"@type", "name", "acceptedAnswer"} |->
            CASE k = "@type" -> type [] k = "name" -> name [] OTHER -> answer])

Document(context, type, main_entity, name, description) ==
  DictOf({"@context", "@type", "mainEntity", "name", "description"},
         [k \in {"@context", "@type", "mainEntity", "name", "description"} |->
            CASE k = "@context" -> context
              [] k = "@type" -> type
              [] k = "mainEntity" -> main_entity
              [] k = "name" -> name
              [] OTHER -> description])

\* the texts of the fixture of tests/test_validators.py
Q1 == <<"W", "h", "a", "t", " ", "s", "e", "r", "v", "i", "c", "e", "s", " ", "d", "o", " ", "y", "o", "u", " ", "o", "f", "f", "e", "r", "?">>
Q2 == <<"H", "o", "w", " ", "d", "o", " ", "I", " ", "s", "c", "h", "e", "d", "u", "l", "e", " ", "a", "n", " ", "a", "p", "p", "o", "i", "n", "t", "m", "e", "n", "t", "?">>
Q3 == <<"W", "h", "a", "t", " ", "a", "r", "e", " ", "y", "o", "u", "r", " ", "o", "f", "f", "i", "c", "e", " ", "h", "o", "u", "r", "s", "?">>
A1 == <<"W", "e", " ", "p", "r", "o", "v", "i", "d", "e", " ", "c", "o", "m", "p", "r", "e", "h", "e", "n", "s", "i", "v", "e", " ", "d", "e", "n", "t", "a", "l", " ", "c", "a", "r", "e", " ", "i", "n", "c", "l", "u", "d", "i", "n", "g", " ", "c", "l", "e", "a", "n", "i", "n", "g", "s", ",", " ", "f", "i", "l", "l", "i", "n", "g", "s", ",", " ", "a", "n", "d", " ", "c", "o", "s", "m", "e", "t", "i", "c", " ", "p", "r", "o", "c", "e", "d", "u", "r", "e", "s", ".">>
A2 == <<"Y", "o", "u", " ", "c", "a", "n", " ", "s", "c", "h", "e", "d", "u", "l", "e", " ", "a", "n", " ", "a", "p", "p", "o", "i", "n", "t", "m", "e", "n", "t", " ", "b", "y", " ", "c", "a", "l", "l", "i", "n", "g", " ", "o", "u", "r", " ", "o", "f", "f", "i", "c", "e", " ", "o", "r", " ", "u", "s", "i", "n", "g", " ", "o", "u", "r", " ", "o", "n", "l", "i", "n", "e", " ", "b", "o", "o", "k", "i", "n", "g", " ", "s", "y", "s", "t", "e", "m", ".">>
A3 == <<"O", "u", "r", " ", "o", "f", "f", "i", "c", "e", " ", "i", "s", " ", "o", "p", "e", "n", " ", "M", "o", "n", "d", "a", "y", " ", "t", "h", "r", "o", "u", "g", "h", " ", "F", "r", "i", "d", "a", "y", " ", "f", "r", "o", "m", " ", "8", " ", "A", "M", " ", "t", "o", " ", "5", " ", "P", "M", ".">>
\* other texts
QShort == <<"W", "h", "a", "t", "?">>
QOther == <<"I", "s", " ", "p", "a", "r", "k", "i", "n", "g", " ", "f", "r", "e", "e", " ", "n", "e", "a", "r", "b", "y", "?">>
ExampleCom == <<"h", "t", "t", "p", "s", ":", "/", "/", "e", "x", "a", "m", "p", "l", "e", ".", "c", "o", "m">>
NotAList == <<"n", "o", "t", " ", "a", " ", "l", "i", "s", "t">>
Article == <<"A", "r", "t", "i", "c", "l", "e">>
Thing == <<"T", "h", "i", "n", "g">>

Around(n) == (n - Slack)..(n + Slack)

\* values of entity['name']: every shape, and lengths around 10 and 200
Names ==
  {Absent, PyNone, PyInt(42), PyList(<<PyStr(Q1)>>), PyStr(<<>>),
   PyStr(<<" ", " ">>), PyStr(QShort), PyStr(Q1), PyStr(QOther)}
  \cup {PyStr(Padded(<<"W", "h", "a", "t", " ">>, n)) : n \in Around(10) \cup Around(200)}

\* values of answer['text']: every shape, and lengths around 20, 50 and 1000
Texts ==
  {Absent, PyNone, PyInt(42), PyList(<<PyStr(A1)>>), PyStr(<<>>),
   PyStr(<<" ", " ">>), PyStr(A1)}
  \cup {PyStr(Padded(<<"W", "e", " ">>, n)) :
          n \in Around(20) \cup Around(50) \cup Around(1000)}

\* entities that vary the question and the answer text
TextEntities ==
  {Entity(Lit("Question"), name, Answer(Lit("Answer"), text)) :
     name \in Names, text \in Texts}

\* entities that vary the shape around one well-formed question
ShapeEntities ==
  {Entity(type, PyStr(Q1), answer) :
     type \in {Absent, PyNone, PyStr(Thing), Lit("Question")},
     answer \in {Absent, PyNone, PyStr(A1), PyList(<<>>),
                 Answer(Absent, PyStr(A1)), Answer(PyStr(Thing), PyStr(A1)),
                 Answer(Lit("Answer"), PyStr(A1))}}

\* list elements that are not mappings
NonMappings == {PyNone, PyInt(7), PyStr(Chars["@type"]), PyList(<<Lit("name")>>)}

\* the three entities of the test fixture
E1 == Entity(Lit("Question"), PyStr(Q1), Answer(Lit("Answer"), PyStr(A1)))
E2 == Entity(Lit("Question"), PyStr(Q2), Answer(Lit("Answer"), PyStr(A2)))
E3 == Entity(Lit("Question"), PyStr(Q3), Answer(Lit("Answer"), PyStr(A3)))

\* the entities the longer lists are built from
CoreEntities ==
  {E1, E2, E3,
   Entity(Lit("Question"), PyNone, Answer(Lit("Answer"), PyStr(A1))),
   PyNone}

SeqsOf(S, n) == UNION {[1..m -> S] : m \in 0..n}

\* the entities the lists of two are built from: a question in two spellings,
\* an entity without a name, an empty one, and one whose answer is a str
PairEntities ==
  {E1, E3,
   Entity(Lit("Question"), PyStr(lower(Q3)), Answer(Lit("Answer"), PyStr(A3))),
   Entity(Lit("Question"), Absent, Answer(Lit("Answer"), PyStr(A1))),
   PyDict(<<>>),
   Entity(Lit("Question"), PyStr(Q1), PyStr(A1))}

\* an entity with the wrong type, a short question and a short answer
Messy ==
  Entity(PyStr(Thing), PyStr(QShort),
         Answer(Lit("Answer"), PyStr(Padded(<<"W", "e", " ">>, 20))))

\* the list of n entities that repeats the three entities of the fixture
FixtureCycle(n) == [i \in 1..n |-> <<E1, E2, E3>>[((i - 1) % 3) + 1]]

\* list lengths around the two question counts of the SEO pass, and a long list
ListLengths == Around(3) \cup Around(10) \cup {15}

\* values of schema['mainEntity']
MainEntities ==
  {PyList(<<e>>) : e \in TextEntities \cup ShapeEntities \cup NonMappings}
  \cup {PyList(l) : l \in SeqsOf(CoreEntities, MaxEntities)}
  \cup {PyList(l) : l \in [1..2 -> PairEntities]}
  \cup {PyList(<<E1, E3, e>>) : e \in PairEntities \cup {Messy}}
  \cup {PyList(FixtureCycle(n)) : n \in ListLengths}
  \cup {Absent, PyNone, PyInt(3), PyStr(NotAList), PyStr(<<>>)}

\* mainEntity values that are combined with every shape of the top level
TopLevelMainEntities ==
  {Absent, PyNone, PyStr(NotAList), PyList(<<>>), PyList(<<E1>>),
   PyList(<<PyNone>>), PyList(<<Messy, Messy>>)}

valid_schema ==
  Document(Lit("https://schema.org"), Lit("FAQPage"), PyList(<<E1, E2, E3>>),
           Absent, Absent)

Documents ==
  {Document(Lit("https://schema.org"), Lit("FAQPage"), main_entity, Absent, Absent) :
     main_entity \in MainEntities}
  \cup {Document(context, type, main_entity, name, description) :
          context \in {Absent, PyNone, Lit("https://schema.org"), PyStr(ExampleCom)},
          type \in {Absent, PyNone, Lit("FAQPage"), PyStr(Article)},
          main_entity \in TopLevelMainEntities,
          name \in {Absent, PyStr(Q1)},
          description \in {Absent, PyStr(A1)}}
  \cup {PyNone, PyStr(Chars["@context"]), PyList(<<>>)}

\* the document a caller goes on to validate with the same validator
NextDocuments == {PyDict(<<>>)}

----------------------------------------------------------------------------
(* SchemaGenerator.generate_schema *)

\* a raise of an exception of the class `type` whose str() is e
RaiseOf(type, e) == [raised |-> TRUE, value |-> type, error |-> e]

\* SchemaGenerator.__init__: self.schema_template
schema_template ==
  PyDict([k \in {"@context", "@type", "mainEntity"} |->
            CASE k = "@context" -> Lit("https://schema.org")
              [] k = "@type" -> Lit("FAQPage")
              [] OTHER -> PyList(<<>>)])

\* container[key] = value on a dict
SetItem(container, key, value) ==
  PyDict([k \in DOMAIN container.d \cup {key} |->
            IF k = key THEN value ELSE container.d[k]])

\* ", ".join(strs)
RECURSIVE CommaJoin(_)
CommaJoin(strs) ==
  IF strs = <<>> THEN <<>>
  ELSE IF Len(strs) = 1 THEN strs[1].s
  ELSE strs[1].s \o <<",", " ">> \o CommaJoin(Tail(strs))

\* _create_question_entity that takes the answer for the name and the
\* question for the text
_create_question_entity_swapped(faq) ==
  LET question == Subscript(faq, "question")
      answer == Subscript(faq, "answer")
  IN IF question.raised THEN RaiseOf("KeyError", question.error)
     ELSE IF answer.raised THEN RaiseOf("KeyError", answer.error)
     ELSE Ok(Entity(Lit("Question"), answer.value,
                    Answer(Lit("Answer"), question.value)))

_create_question_entity(faq) ==
  LET question == Subscript(faq, "question")
      answer == Subscript(faq, "answer")
      entity == Entity(Lit("Question"), question.value,
                       Answer(Lit("Answer"), answer.value))
      category == Get(faq, "category", PyNone).value
      about == PyDict([k \in {"@type", "name"} |->
                         IF k = "@type" THEN PyStr(Thing)
                         ELSE category])
      e1 == IF Truthy(category) THEN SetItem(entity, "about", about) ELSE entity
      keywords == Get(faq, "keywords", PyNone).value
      e2 == IF Truthy(keywords)
            THEN SetItem(e1, "keywords", PyStr(CommaJoin(Iter(keywords).value)))
            ELSE e1
  IN IF question.raised
       THEN RaiseOf(IF faq.t = "dict" THEN "KeyError" ELSE "TypeError", question.error)
     ELSE IF answer.raised THEN RaiseOf("KeyError", answer.error)
     ELSE Ok(e2)

\* the loop over faqs, from position i on, that fills main_entities
RECURSIVE CreateEntities(_, _, _)
CreateEntities(faqs, i, main_entities) ==
  IF i > Len(faqs) THEN Ok(main_entities)
  ELSE Then(_create_question_entity(faqs[i]),
            LAMBDA entity : CreateEntities(faqs, i + 1, Append(main_entities, entity)))

\* the optional metadata and the timestamp; `now` is datetime.now().isoformat()
AddMetadata(schema, kwargs, now) ==
  LET title == Get(kwargs, "title", PyNone).value
      s1 == IF Truthy(title) THEN SetItem(schema, "name", title) ELSE schema
      description == Get(kwargs, "description", PyNone).value
      s2 == IF Truthy(description) THEN SetItem(s1, "description", description) ELSE s1
      url == Get(kwargs, "url", PyNone).value
      s3 == IF Truthy(url) THEN SetItem(s2, "url", url) ELSE s2
  IN SetItem(s3, "dateCreated", now)

\* the except clause raises again what the try block raised
generate_schema(faqs, kwargs, now) ==
  IF ~Truthy(faqs)
  THEN RaiseOf("ValueError", "No FAQs provided for schema generation")
  ELSE Then(CreateEntities(Iter(faqs).value, 1, <<>>),
            LAMBDA main_entities :
              Ok(AddMetadata(SetItem(schema_template, "mainEntity",
                                     PyList(main_entities)),
                             kwargs, now)))

----------------------------------------------------------------------------
(* The FAQs the callers generate from *)

Dental == <<"d", "e", "n", "t", "a", "l">>
Hours == <<"h", "o", "u", "r", "s">>

\* one FAQ: question, answer, and the optional category and keywords
Faq(question, answer, category, keywords) ==
  DictOf({"question", "answer", "category", "keywords"},
         [k \in {"question", "answer", "category", "keywords"} |->
            CASE k = "question" -> question
              [] k = "answer" -> answer
              [] k = "category" -> category
              [] OTHER -> keywords])

FaqChoices ==
  {Faq(PyStr(q), PyStr(a), x[1], x[2]) :
     q \in {Q1, QShort},
     a \in {A1, Padded(<<"W", "e", " ">>, 20)},
     x \in {<<Absent, Absent>>,
            <<PyStr(Dental), PyList(<<PyStr(Dental), PyStr(Hours)>>)>>}}
  \cup {Faq(PyStr(<<" ", " ">>), PyStr(A1), Absent, Absent),
        Faq(PyStr(Q1), Absent, Absent, Absent)}

\* the lists of up to MaxFaqs FAQs
FaqLists ==
  {PyList(l) : l \in UNION {[1..n -> FaqChoices] : n \in 0..MaxFaqs}}

\* the keyword arguments of generate_schema
Metadata ==
  {PyDict(<<>>),
   PyDict([k \in {"title", "description", "url"} |->
             CASE k = "title" -> PyStr(<<"F", "A", "Q">>)
               [] k = "description" -> PyStr(<<>>)
               [] OTHER -> PyStr(ExampleCom)])}

\* values of datetime.now().isoformat()
Timestamps ==
  {PyStr(<<"2", "0", "2", "5", "-", "0", "1", "-", "1", "5", "T",
           "1", "0", ":", "3", "0", ":", "0", "0">>),
   PyStr(<<"2", "0", "2", "5", "-", "0", "1", "-", "1", "5", "T",
           "1", "0", ":", "3", "0", ":", "0", "0", ".", "1", "2", "3", "4", "5", "6">>)}

----------------------------------------------------------------------------
(* The validator in use *)

NoReport ==
  [valid |-> FALSE, issues |-> <<>>, warnings |-> <<>>, suggestions |-> <<>>,
   google_validation |-> PyNone]

NoGoogleResults ==
  [valid |-> FALSE, issues |-> <<>>, warnings |-> <<>>, rich_results |-> FALSE]

NoSummary == ""

\* no object
NoObject == <<"none", 0>>

\* the heap before a call has returned
EmptyHeap == [object \in {} |-> NoReport]

\* the dicts in the heap that validate_with_google returned
GoogleCalls(h) == Cardinality({object \in DOMAIN h : object[1] = "validate_with_google"})

\* SchemaValidator.__init__
NewValidator ==
  [google_test_url |-> "https://search.google.com/test/rich-results",
   schema_org_url |-> "https://schema.org/FAQPage"]

NoGeneration == [outcome |-> "idle", faqs |-> PyNone, error |-> ""]

\* what holds of a validator that has not been called yet
Fresh == /\ validator = NewValidator
         /\ heap = EmptyHeap
         /\ report_ref = NoObject
         /\ google_ref = NoObject
         /\ generation = NoGeneration
         /\ outcome = "idle"
         /\ report = NoReport
         /\ calls = 0
         /\ supplies = 0
         /\ first_call = [made |-> FALSE, schema |-> PyNone, results |-> NoReport]
         /\ google_outcome = "idle"
         /\ google_results = NoGoogleResults
         /\ summary = NoSummary

Init == /\ document \in Documents
        /\ Fresh

\* the caller has FAQs and no document yet
InitGenerate == /\ document = PyNone
                /\ Fresh

\* ValidateSchema with one results dict that every call goes on filling
ValidateSchemaShared ==
  /\ calls < MaxCalls
  /\ LET r == validate_schema(document)
         shared == [r.value EXCEPT !.issues = report.issues \o @,
                                   !.warnings = report.warnings \o @,
                                   !.suggestions = report.suggestions \o @,
                                   !.valid = @ /\ report.issues = <<>>]
     IN /\ outcome' = "returned"
        /\ report' = shared
        /\ first_call' = IF first_call.made THEN first_call
                         ELSE [made |-> TRUE, schema |-> document, results |-> shared]
        /\ heap' = (<<"validate_schema", 1>> :> shared) @@ heap
        /\ report_ref' = <<"validate_schema", 1>>
  /\ calls' = calls + 1
  /\ UNCHANGED <<document, supplies, google_outcome, google_results, summary,
                 validator, google_ref, generation>>

\* results = validator.validate_schema(document)
ValidateSchema ==
  /\ calls < MaxCalls
  /\ LET r == validate_schema(document)
     IN /\ outcome' = IF r.raised THEN "raised" ELSE "returned"
        /\ report' = IF r.raised THEN NoReport ELSE r.value
        /\ first_call' = IF first_call.made \/ r.raised THEN first_call
                         ELSE [made |-> TRUE, schema |-> document, results |-> r.value]
        /\ heap' = IF r.raised THEN heap
                   ELSE (<<"validate_schema", calls + 1>> :> r.value) @@ heap
        /\ report_ref' = IF r.raised THEN report_ref
                         ELSE <<"validate_schema", calls + 1>>
  /\ calls' = calls + 1
  /\ UNCHANGED <<document, supplies, google_outcome, google_results, summary,
                 validator, google_ref, generation>>

\* the caller turns to another document, or back to the first one
Supply(d) ==
  /\ outcome # "idle"
  /\ supplies < MaxSupplies
  /\ d # document
  /\ document' = d
  /\ outcome' = "idle"
  /\ report' = NoReport
  /\ calls' = 0
  /\ supplies' = supplies + 1
  /\ google_outcome' = "idle"
  /\ google_results' = NoGoogleResults
  /\ summary' = NoSummary
  /\ heap' = EmptyHeap
  /\ report_ref' = NoObject
  /\ google_ref' = NoObject
  /\ UNCHANGED <<first_call, validator, generation>>

Next == \/ ValidateSchema
        \/ \E d \in NextDocuments \cup {first_call.schema} : Supply(d)

Spec == Init /\ [][Next]_vars

\* ValidateWithGoogle that fills and returns the dict of validate_schema
ValidateWithGoogleShared ==
  /\ GoogleCalls(heap) < MaxCalls
  /\ LET r == validate_with_google(document)
     IN /\ google_outcome' = "returned"
        /\ google_results' = r.value
        /\ heap' = (<<"validate_schema", 1>> :> r.value) @@ heap
        /\ google_ref' = <<"validate_schema", 1>>
  /\ UNCHANGED <<document, outcome, report, calls, supplies, first_call, summary,
                 validator, report_ref, generation>>

\* results = validator.validate_with_google(document)
ValidateWithGoogle ==
  /\ GoogleCalls(heap) < MaxCalls
  /\ LET r == validate_with_google(document)
         object == <<"validate_with_google", GoogleCalls(heap) + 1>>
     IN /\ google_outcome' = IF r.raised THEN "raised" ELSE "returned"
        /\ google_results' = IF r.raised THEN NoGoogleResults ELSE r.value
        /\ heap' = IF r.raised THEN heap ELSE (object :> r.value) @@ heap
        /\ google_ref' = IF r.raised THEN google_ref ELSE object
  /\ UNCHANGED <<document, outcome, report, calls, supplies, first_call, summary,
                 validator, report_ref, generation>>

\* summary = validator.get_validation_summary(results), of the report the
\* latest validate_schema call returned
GetValidationSummary ==
  /\ outcome = "returned"
  /\ summary' = get_validation_summary(report)
  /\ UNCHANGED <<document, outcome, report, calls, supplies, first_call,
                 google_outcome, google_results,
                 validator, heap, report_ref, google_ref, generation>>

\* a caller that uses the three entry points on one document
NextEntryPoints == \/ ValidateSchema
                   \/ ValidateWithGoogle
                   \/ GetValidationSummary

SpecEntryPoints == Init /\ [][NextEntryPoints]_vars

\* document = generator.generate_schema(faqs, **kwargs), made once; the
\* document it returns is the one the caller holds from then on
GenerateSchema ==
  /\ generation.outcome = "idle"
  /\ \E faqs \in FaqLists, kwargs \in Metadata, now \in Timestamps :
       LET r == generate_schema(faqs, kwargs, now)
       IN /\ generation' = [outcome |-> IF r.raised THEN "raised" ELSE "returned",
                            faqs |-> faqs,
                            error |-> IF r.raised THEN r.value \o ": " \o r.error
                                      ELSE ""]
          /\ document' = IF r.raised THEN document ELSE r.value
          /\ outcome' = IF r.raised THEN outcome ELSE "idle"
          /\ report' = IF r.raised THEN report ELSE NoReport
          /\ calls' = IF r.raised THEN calls ELSE 0
          /\ heap' = IF r.raised THEN heap ELSE EmptyHeap
          /\ report_ref' = IF r.raised THEN report_ref ELSE NoObject
  /\ UNCHANGED <<supplies, first_call, google_outcome, google_results, summary,
                 validator, google_ref>>

NextGenerate == \/ GenerateSchema
                \/ ValidateSchema

SpecGenerate == InitGenerate /\ [][NextGenerate]_vars
----------------------------------------------------------------------------
(* Properties of validate_schema *)

Count(seq, x) == Cardinality({i \in 1..Len(seq) : seq[i] = x})
IsPrefixOf(p, seq) == Len(p) <= Len(seq) /\ SubSeq(seq, 1, Len(p)) = p

StructureOf(doc) == _validate_structure(doc)
ContentOf(doc) == _validate_content(doc)
SeoOf(doc) == _validate_seo_practices(doc)

\* the elements of doc['mainEntity'] when it is a list, else none
EntitiesOf(doc) ==
  IF doc.t = "dict" /\ "mainEntity" \in DOMAIN doc.d /\ doc.d["mainEntity"].t = "list"
  THEN doc.d["mainEntity"].l ELSE <<>>

HasNonMapping(doc) ==
  \E i \in 1..Len(EntitiesOf(doc)) : EntitiesOf(doc)[i].t # "dict"

\* C1: validate_schema returns a report with the keys valid, issues, warnings
\* and suggestions for every document, and never raises to its caller.
Totality ==
  /\ outcome # "raised"
  /\ calls > 0 =>
       /\ outcome = "returned"
       /\ {"valid", "issues", "warnings", "suggestions"} \subseteq DOMAIN report
       /\ report.valid \in BOOLEAN
       /\ \A k \in {"issues", "warnings", "suggestions"} :
            DOMAIN report[k] = 1..Len(report[k])

\* a call has returned on a document whose structural pass raised on an
\* element of mainEntity that is not a mapping
TotalityWitness ==
  /\ outcome = "returned"
  /\ HasNonMapping(document)
  /\ StructureOf(document).raised

\* C2: in every report validate_schema returns, valid is true exactly when
\* issues is empty, on the normal path and on the caught-failure path.
ValidIffNoIssues ==
  outcome = "returned" => (report.valid <=> report.issues = <<>>)

\* a report of the normal path whose only issues come from an entity, so that
\* the structural pass left valid true
ValidIffNoIssuesWitness ==
  /\ outcome = "returned"
  /\ ~StructureOf(document).raised
  /\ ~ContentOf(document).raised
  /\ ~SeoOf(document).raised
  /\ StructureOf(document).value.valid
  /\ report.issues # <<>>
  /\ ~report.valid

\* strs other than 'https://schema.org'
NonCanonicalContexts ==
  {PyStr(ExampleCom), PyStr(<<>>), PyStr(Chars["https://schema.org"] \o <<"/">>),
   PyStr(lower(Chars["FAQPage"]))}

WithContext(doc, context) ==
  PyDict([k \in DOMAIN doc.d \cup {"@context"} |->
            IF k = "@context" THEN context ELSE doc.d[k]])

\* C3: when validate_schema finds a document valid, the document with its
\* @context replaced by any other string is valid too, gets the warning
\* "@context should be 'https://schema.org'" and gets no issue.
ContextMismatchKeepsValid ==
  (outcome = "returned" /\ report.valid) =>
    \A context \in NonCanonicalContexts :
      LET r == validate_schema(WithContext(document, context))
      IN /\ ~r.raised
         /\ r.value.valid
         /\ Count(r.value.warnings, "@context should be 'https://schema.org'") = 1
         /\ r.value.issues = report.issues

\* a valid report on a document whose @context is not the canonical one
ContextMismatchWitness ==
  /\ outcome = "returned"
  /\ report.valid
  /\ document.d["@context"] = PyStr(ExampleCom)
  /\ Count(report.warnings, "@context should be 'https://schema.org'") = 1

WellFormedEntity(entity) ==
  /\ entity.t = "dict"
  /\ DOMAIN entity.d = {"@type", "name", "acceptedAnswer"}
  /\ entity.d["@type"] = Lit("Question")
  /\ entity.d["name"].t = "str"
  /\ Len(entity.d["name"].s) \in 10..200
  /\ strip(entity.d["name"].s) # <<>>
  /\ entity.d["acceptedAnswer"].t = "dict"
  /\ DOMAIN entity.d["acceptedAnswer"].d = {"@type", "text"}
  /\ entity.d["acceptedAnswer"].d["@type"] = Lit("Answer")
  /\ entity.d["acceptedAnswer"].d["text"].t = "str"
  /\ Len(entity.d["acceptedAnswer"].d["text"].s) \in 50..1000
  /\ strip(entity.d["acceptedAnswer"].d["text"].s) # <<>>

StartsWith(entity, word) == IsPrefixOf(word, entity.d["name"].s)

CanonicalPage(doc) ==
  /\ doc.t = "dict"
  /\ {"@context", "@type", "mainEntity"} \subseteq DOMAIN doc.d
  /\ doc.d["@context"] = Lit("https://schema.org")
  /\ doc.d["@type"] = Lit("FAQPage")
  /\ doc.d["mainEntity"].t = "list"

\* the shape of the fixture of the tests: three well-formed, distinct questions
\* that start with What, How, What and no page-level name or description
WellFormedThree(doc) ==
  /\ CanonicalPage(doc)
  /\ DOMAIN doc.d = {"@context", "@type", "mainEntity"}
  /\ Len(EntitiesOf(doc)) = 3
  /\ \A i \in 1..3 : WellFormedEntity(EntitiesOf(doc)[i])
  /\ EntitiesOf(doc)[1].d["name"] # EntitiesOf(doc)[3].d["name"]
  /\ StartsWith(EntitiesOf(doc)[1], <<"W", "h", "a", "t">>)
  /\ StartsWith(EntitiesOf(doc)[2], <<"H", "o", "w">>)
  /\ StartsWith(EntitiesOf(doc)[3], <<"W", "h", "a", "t">>)

\* C5: validate_schema on a well-formed three-question document (questions
\* starting What/How/What, no page name or description) returns valid=true
\* with empty issues, empty warnings and empty suggestions.
WellFormedThreeIsClean ==
  (outcome = "returned" /\ WellFormedThree(document)) =>
    /\ report.valid
    /\ report.issues = <<>>
    /\ report.warnings = <<>>
    /\ report.suggestions = <<>>

\* one well-formed question that starts with What
MinimalValid(doc) ==
  /\ CanonicalPage(doc)
  /\ Len(EntitiesOf(doc)) = 1
  /\ WellFormedEntity(EntitiesOf(doc)[1])
  /\ StartsWith(EntitiesOf(doc)[1], <<"W", "h", "a", "t">>)

\* C6: a document with the canonical @context, @type 'FAQPage' and exactly one
\* well-formed question is valid with no issue, and its warnings contain 'FAQ
\* pages should have at least 3 questions for best SEO results'.
MinimalValidDocument ==
  (outcome = "returned" /\ MinimalValid(document)) =>
    /\ report.valid
    /\ report.issues = <<>>
    /\ Count(report.warnings,
             "FAQ pages should have at least 3 questions for best SEO results") = 1

\* the report of a minimal document whose question is 200 characters long
MinimalValidWitness ==
  /\ outcome = "returned"
  /\ MinimalValid(document)
  /\ Len(EntitiesOf(document)[1].d["name"].s) = 200
  /\ report.valid

TopLevelKeys == <<"@context", "@type", "mainEntity">>
MissingMessage(key) == "Missing required field: " \o key

\* one message per absent key, in the order @context, @type, mainEntity
ExpectedMissing(doc) ==
  LET absent == SelectSeq(TopLevelKeys, LAMBDA key : key \notin DOMAIN doc.d)
  IN [i \in 1..Len(absent) |-> MissingMessage(absent[i])]

\* C7: the structural pass raises exactly one 'Missing required field: <key>'
\* for each of @context, @type, mainEntity that is absent, in that order, and
\* none for a key that is present; {'@type': 'FAQPage'} is invalid with the
\* issues 'Missing required field: @context', 'Missing required field:
\* mainEntity' and no other.
RequiredTopLevelKeys ==
  (outcome = "returned" /\ document.t = "dict") =>
    /\ RequiredFields(document, [valid |-> TRUE, issues |-> <<>>,
                                 warnings |-> <<>>]).value.issues
         = ExpectedMissing(document)
    /\ ~StructureOf(document).raised =>
         /\ IsPrefixOf(ExpectedMissing(document), StructureOf(document).value.issues)
         /\ \A i \in 1..3 :
              Count(StructureOf(document).value.issues, MissingMessage(TopLevelKeys[i]))
                = IF TopLevelKeys[i] \in DOMAIN document.d THEN 0 ELSE 1
    /\ document = PyDict([k \in {"@type"} |-> Lit("FAQPage")]) =>
         /\ ~report.valid
         /\ report.issues = <<MissingMessage("@context"), MissingMessage("mainEntity")>>

\* the report of {'@type': 'FAQPage'}
RequiredTopLevelKeysWitness ==
  /\ outcome = "returned"
  /\ document = PyDict([k \in {"@type"} |-> Lit("FAQPage")])
  /\ Len(report.issues) = 2

\* the diagnostics _validate_question_entity gives the mappings of mainEntity
\* other than the one at position i (1-based)
OtherEntityIssues(doc, i) ==
  {m \in UNION {{r.value.issues[n] : n \in 1..Len(r.value.issues)} :
                  r \in {_validate_question_entity(EntitiesOf(doc)[j], j - 1) :
                           j \in {k \in 1..Len(EntitiesOf(doc)) :
                                    k # i /\ EntitiesOf(doc)[k].t = "dict"}}} : TRUE}

TopLevelIssues(doc) ==
  LET r == Then(RequiredFields(doc, [valid |-> TRUE, issues |-> <<>>, warnings |-> <<>>]),
                LAMBDA r1 : ValidateType(doc, r1))
  IN {r.value.issues[n] : n \in 1..Len(r.value.issues)}

\* C8: when the element at index i of mainEntity is not a mapping, the
\* structural pass does not raise; the report has an issue for index i, and
\* the issues of the other entities and of the top-level checks are in it.
NonMappingEntityDegrades ==
  (outcome = "returned" /\ document.t = "dict") =>
    \A i \in 1..Len(EntitiesOf(document)) :
      EntitiesOf(document)[i].t # "dict" =>
        /\ ~StructureOf(document).raised
        /\ TopLevelIssues(document) \subseteq {report.issues[n] : n \in 1..Len(report.issues)}
        /\ OtherEntityIssues(document, i) \subseteq {report.issues[n] : n \in 1..Len(report.issues)}
        /\ \E n \in 1..Len(report.issues) :
             report.issues[n] \notin TopLevelIssues(document) \cup OtherEntityIssues(document, i)

\* the pass that fails first, as validate_schema runs them
FailedPass(doc) ==
  IF StructureOf(doc).raised THEN StructureOf(doc)
  ELSE IF ContentOf(doc).raised THEN ContentOf(doc)
  ELSE SeoOf(doc)

\* the issues merged into the report before the failure
MergedIssues(doc) ==
  IF StructureOf(doc).raised THEN <<>> ELSE StructureOf(doc).value.issues

\* C9: when a pass fails inside validate_schema, the report has valid=false
\* and its issues are the issues merged from the passes that completed
\* followed by one 'Validation error: ...' issue that describes the failure.
FailureReported ==
  (outcome = "returned" /\ FailedPass(document).raised) =>
    /\ ~report.valid
    /\ report.issues
         = Append(MergedIssues(document),
                  "Validation error: " \o FailedPass(document).error)
    /\ Count(report.issues, "Validation error: " \o FailedPass(document).error) = 1

\* the content pass failed after the structural pass had raised issues
FailureReportedWitness ==
  /\ outcome = "returned"
  /\ ~StructureOf(document).raised
  /\ ContentOf(document).raised
  /\ Len(StructureOf(document).value.issues) >= 2
  /\ Len(report.issues) = Len(StructureOf(document).value.issues) + 1

\* C10: when @type is present and is not 'FAQPage', validate_schema returns
\* valid=false and "@type must be 'FAQPage'" is in issues exactly once; when
\* @type is 'FAQPage' that issue is absent.
TypeMismatchInvalidates ==
  (outcome = "returned" /\ document.t = "dict" /\ "@type" \in DOMAIN document.d) =>
    IF document.d["@type"] # Lit("FAQPage")
    THEN ~report.valid /\ Count(report.issues, "@type must be 'FAQPage'") = 1
    ELSE Count(report.issues, "@type must be 'FAQPage'") = 0

----------------------------------------------------------------------------
(* The shape of mainEntity *)

IssuesOf(r) == {r.issues[n] : n \in 1..Len(r.issues)}

\* what the entity sub-check and the answer loop can say about one entity
EntityDiagnostics ==
  {"Missing required field '@type'", "Missing required field 'name'",
   "Missing required field 'acceptedAnswer'", "@type must be 'Question'",
   "'name' must be a non-empty string", "Question is very short",
   "Question is very long", "acceptedAnswer must be a dictionary",
   "acceptedAnswer @type must be 'Answer'", "acceptedAnswer missing 'text' field",
   "acceptedAnswer text must be non-empty", "Answer is very short",
   "Answer is very long", "Consider expanding the answer for better value"}

\* the diagnostics 'Question <i>: ...' for the indices up to n
PerEntityDiagnostics(n) ==
  {"Question " \o ToString(i) \o ": " \o m : i \in 0..n, m \in EntityDiagnostics}

\* the 'Validation error: ...' issues the failures of the passes give
GenericIssues(doc) ==
  {"Validation error: " \o p.error :
     p \in {q \in {StructureOf(doc), ContentOf(doc), SeoOf(doc)} : q.raised}}

\* C11: when mainEntity is present and not a list, validate_schema returns
\* valid=false with the issue 'mainEntity must be a list' and no
\* 'Question <i>: ...' diagnostic; when it is the empty list, valid=false with
\* the issue 'mainEntity cannot be empty'; no 'Validation error' issue in
\* either case.
MainEntityContainerShape ==
  (outcome = "returned" /\ document.t = "dict" /\ "mainEntity" \in DOMAIN document.d) =>
    LET main_entity == document.d["mainEntity"]
        said == IssuesOf(report)
                  \cup {report.warnings[n] : n \in 1..Len(report.warnings)}
                  \cup {report.suggestions[n] : n \in 1..Len(report.suggestions)}
    IN /\ main_entity.t # "list" =>
            /\ ~report.valid
            /\ "mainEntity must be a list" \in IssuesOf(report)
            /\ said \cap PerEntityDiagnostics(MaxEntities) = {}
            /\ IssuesOf(report) \cap GenericIssues(document) = {}
       /\ main_entity = PyList(<<>>) =>
            /\ ~report.valid
            /\ "mainEntity cannot be empty" \in IssuesOf(report)
            /\ IssuesOf(report) \cap GenericIssues(document) = {}

----------------------------------------------------------------------------
(* Properties of validate_with_google *)

\* a page of type FAQPage with a list of two well-formed entities
TwoWellFormed(doc) ==
  /\ doc.t = "dict"
  /\ "@type" \in DOMAIN doc.d
  /\ doc.d["@type"] = Lit("FAQPage")
  /\ Len(EntitiesOf(doc)) = 2
  /\ \A i \in 1..2 : WellFormedEntity(EntitiesOf(doc)[i])

\* C12: in every report validate_with_google returns, the short-circuit and
\* caught-failure returns included, rich_results is (valid and at least 3
\* mainEntity entries); a fully valid document with 2 entities gets
\* valid=true, rich_results=false and the warning 'Schema may not be eligible
\* for rich results'.
RichResultsFlag ==
  google_outcome = "returned" =>
    /\ google_results.rich_results
         = (google_results.valid /\ Len(EntitiesOf(document)) >= 3)
    /\ TwoWellFormed(document) =>
         /\ google_results.valid
         /\ ~google_results.rich_results
         /\ \E n \in 1..Len(google_results.warnings) :
              google_results.warnings[n] = "Schema may not be eligible for rich results"

\* the page type validate_with_google reads is not 'FAQPage', or is absent
NotFAQPage(doc) ==
  "@type" \notin DOMAIN doc.d \/ doc.d["@type"] # Lit("FAQPage")

\* mainEntity is absent, or is a collection without an entry
NoEntry(doc) ==
  \/ "mainEntity" \notin DOMAIN doc.d
  \/ doc.d["mainEntity"] \in {PyList(<<>>), PyStr(<<>>), PyDict(<<>>)}

GoogleIssue(i, what) == "Question " \o ToString(i) \o what

\* C14: validate_with_google inspects every entry of mainEntity: an entry that
\* is not a mapping adds exactly the issue 'Question <i+1> is not properly
\* formatted'; a mapping adds one issue for each check it violates (type is
\* 'Question', name non-empty, acceptedAnswer is a mapping of type 'Answer',
\* answer text non-empty), also when an earlier entry has an acceptedAnswer
\* that is not a mapping.
GoogleEntityChecks ==
  (google_outcome = "returned" /\ document.t = "dict" /\ ~NotFAQPage(document)) =>
    \A i \in 1..Len(EntitiesOf(document)) :
      LET entity == EntitiesOf(document)[i]
          issues == google_results.issues
          answer == IF "acceptedAnswer" \in DOMAIN entity.d
                    THEN entity.d["acceptedAnswer"] ELSE PyDict(<<>>)
          OneIff(what, violated) ==
            Count(issues, GoogleIssue(i, what)) = IF violated THEN 1 ELSE 0
      IN IF entity.t # "dict"
         THEN /\ OneIff(" is not properly formatted", TRUE)
              /\ OneIff(" has invalid type", FALSE)
              /\ OneIff(" missing question text", FALSE)
              /\ OneIff(" has invalid answer format", FALSE)
              /\ OneIff(" missing answer text", FALSE)
         ELSE /\ OneIff(" is not properly formatted", FALSE)
              /\ OneIff(" has invalid type",
                        "@type" \notin DOMAIN entity.d
                          \/ entity.d["@type"] # Lit("Question"))
              /\ OneIff(" missing question text",
                        "name" \notin DOMAIN entity.d \/ ~Truthy(entity.d["name"]))
              /\ OneIff(" has invalid answer format",
                        answer.t # "dict" \/ "@type" \notin DOMAIN answer.d
                          \/ answer.d["@type"] # Lit("Answer"))
              /\ answer.t = "dict" =>
                   OneIff(" missing answer text",
                          "text" \notin DOMAIN answer.d \/ ~Truthy(answer.d["text"]))

----------------------------------------------------------------------------
(* Properties of the content pass *)

\* the mapping entries of mainEntity that have a question text
WithQuestionText(doc) ==
  SelectSeq(EntitiesOf(doc),
            LAMBDA entity : /\ entity.t = "dict"
                            /\ "name" \in DOMAIN entity.d
                            /\ entity.d["name"].t = "str"
                            /\ entity.d["name"].s # <<>>)

\* C15: the content pass gives the warning 'Duplicate questions found' once
\* when two entities that have question text have texts that are equal
\* without regard to case, and not at all otherwise; entities without
\* question text take no part.
DuplicateWarning ==
  (outcome = "returned" /\ document.t = "dict" /\ ~ContentOf(document).raised) =>
    Count(ContentOf(document).value.warnings, "Duplicate questions found")
      = IF \E i, j \in 1..Len(WithQuestionText(document)) :
             /\ i < j
             /\ lower(WithQuestionText(document)[i].d["name"].s)
                  = lower(WithQuestionText(document)[j].d["name"].s)
        THEN 1 ELSE 0

----------------------------------------------------------------------------
(* Properties of the question-entity sub-check *)

\* the positions of mainEntity at which the structural pass checks a mapping
CheckedEntities(doc) ==
  IF StructureOf(doc).raised THEN {}
  ELSE {i \in 1..Len(EntitiesOf(doc)) : EntitiesOf(doc)[i].t = "dict"}

\* the diagnostic the sub-check gives about the entity at position i (1-based)
EntityDiagnostic(i, what) == "Question " \o ToString(i - 1) \o ": " \o what

NonBlankStr(v) == v.t = "str" /\ strip(v.s) # <<>>

HasAnswerMapping(doc, i) ==
  /\ "acceptedAnswer" \in DOMAIN EntitiesOf(doc)[i].d
  /\ EntitiesOf(doc)[i].d["acceptedAnswer"].t = "dict"

----------------------------------------------------------------------------
(* Properties of the SEO pass *)

----------------------------------------------------------------------------
(* Properties of get_validation_summary *)

\* the lines of one category: none when it is empty, else the header and one
\* bullet line per item, in order
CategoryLines(header, items) ==
  IF Len(items) = 0 THEN <<>>
  ELSE <<header>> \o [i \in 1..Len(items) |-> Bullet \o items[i]]

----------------------------------------------------------------------------
(* More properties of the passes *)

\* C21: for each of '@type', 'name', 'acceptedAnswer' missing from the entity
\* at index i, the sub-check raises "Question <i>: Missing required field
\* '<field>'" once; it raises "Question <i>: @type must be 'Question'" exactly
\* when @type is present and is not 'Question'.
EntityRequiredFields ==
  outcome = "returned" =>
    \A i \in CheckedEntities(document) :
      LET entity == EntitiesOf(document)[i]
          Issue(what) == Count(report.issues, EntityDiagnostic(i, what))
      IN /\ \A field \in {"@type", "name", "acceptedAnswer"} :
              Issue("Missing required field '" \o field \o "'")
                = IF field \in DOMAIN entity.d THEN 0 ELSE 1
         /\ Issue("@type must be 'Question'")
              = IF "@type" \in DOMAIN entity.d /\ entity.d["@type"] # Lit("Question")
                THEN 1 ELSE 0

\* the first tokens of the question texts that have a token
Starters(doc) ==
  LET tokens == SelectSeq([i \in 1..Len(WithQuestionText(doc)) |->
                             split(WithQuestionText(doc)[i].d["name"].s)],
                          LAMBDA words : words # <<>>)
  IN [i \in 1..Len(tokens) |-> tokens[i][1]]

\* C22: the content pass suggests varying the question starters, once, iff at
\* least 3 entities have question text and the distinct first tokens (in
\* exact case) are fewer than 70% of the questions that have a token.
StarterDiversity ==
  (outcome = "returned" /\ document.t = "dict" /\ ~ContentOf(document).raised) =>
    Count(ContentOf(document).value.suggestions,
          "Consider varying question starters for better diversity")
      = IF /\ Len(WithQuestionText(document)) >= 3
           /\ 10 * Cardinality({Starters(document)[i] :
                                  i \in 1..Len(Starters(document))})
                < 7 * Len(Starters(document))
        THEN 1 ELSE 0

\* the answer text of every entity is a str, where there is one
TextsAreStr(doc) ==
  \A i \in 1..Len(EntitiesOf(doc)) :
    (/\ EntitiesOf(doc)[i].t = "dict"
     /\ HasAnswerMapping(doc, i)
     /\ "text" \in DOMAIN EntitiesOf(doc)[i].d["acceptedAnswer"].d) =>
      EntitiesOf(doc)[i].d["acceptedAnswer"].d["text"].t = "str"

\* the positions of mainEntity whose answer text has fewer than 50 characters
ShortAnswers(doc) ==
  {i \in 1..Len(EntitiesOf(doc)) :
     /\ EntitiesOf(doc)[i].t = "dict"
     /\ HasAnswerMapping(doc, i)
     /\ "text" \in DOMAIN EntitiesOf(doc)[i].d["acceptedAnswer"].d
     /\ Len(EntitiesOf(doc)[i].d["acceptedAnswer"].d["text"].s) < 50}

ContentGuardsAccess ==
  (outcome # "idle" /\ document.t = "dict" /\ "mainEntity" \in DOMAIN document.d
     /\ document.d["mainEntity"].t = "list") =>
    ~ContentOf(document).raised

\* the question texts that start with one of the six common patterns
PatternTexts(doc) ==
  SelectSeq(WithQuestionText(doc),
            LAMBDA entity : \E j \in 1..Len(common_patterns) :
              IsPrefixOf(Chars[common_patterns[j]], lower(entity.d["name"].s)))

\* C25: the SEO pass suggests using more common question patterns iff there
\* are question texts and fewer than half of them start, in any case, with
\* what, how, when, where, why or who; a question counts once, and exactly
\* half gives no suggestion.
PatternCoverage ==
  (outcome = "returned" /\ document.t = "dict" /\ ~SeoOf(document).raised) =>
    Count(SeoOf(document).value.suggestions,
          "Consider using more common question patterns (What, How, When, etc.)")
      = IF /\ WithQuestionText(document) # <<>>
           /\ 2 * Len(PatternTexts(document)) < Len(WithQuestionText(document))
        THEN 1 ELSE 0

----------------------------------------------------------------------------
(* Properties of the merge *)

\* the index of the entity an issue is about, -1 for a top-level issue
IndexOf(message, n) ==
  IF \E i \in 0..n : \E m \in EntityDiagnostics :
       message = "Question " \o ToString(i) \o ": " \o m
  THEN CHOOSE i \in 0..n : \E m \in EntityDiagnostics :
         message = "Question " \o ToString(i) \o ": " \o m
  ELSE -1

\* C26: when no pass fails, the issues of the report are those of the
\* structural pass, the top-level ones first and then those of the entities
\* by ascending index; its warnings are the structural, the content and the
\* SEO warnings in this order; its suggestions are the content and the SEO
\* suggestions in this order.
MergeOrder ==
  (outcome = "returned" /\ ~FailedPass(document).raised) =>
    /\ report.issues = StructureOf(document).value.issues
    /\ report.warnings = StructureOf(document).value.warnings
                           \o ContentOf(document).value.warnings
                           \o SeoOf(document).value.warnings
    /\ report.suggestions = ContentOf(document).value.suggestions
                              \o SeoOf(document).value.suggestions
    /\ \A a, b \in 1..Len(report.issues) :
         a < b => IndexOf(report.issues[a], Len(EntitiesOf(document)))
                    <= IndexOf(report.issues[b], Len(EntitiesOf(document)))

\* a report with a top-level issue, issues of two entities, warnings of the
\* three passes and suggestions of both
MergeOrderWitness ==
  /\ outcome = "returned"
  /\ ~FailedPass(document).raised
  /\ \E a, b, c \in 1..Len(report.issues) :
       /\ IndexOf(report.issues[a], 2) = -1
       /\ IndexOf(report.issues[b], 2) = 0
       /\ IndexOf(report.issues[c], 2) = 1
  /\ StructureOf(document).value.warnings # <<>>
  /\ ContentOf(document).value.warnings # <<>>
  /\ SeoOf(document).value.warnings # <<>>
  /\ ContentOf(document).value.suggestions # <<>>
  /\ SeoOf(document).value.suggestions # <<>>

(***************************************************************************)
(* Properties of the two entry points together                             *)
(***************************************************************************)

SchemaValidImpliesGoogleValid ==
  (outcome = "returned" /\ google_outcome = "returned" /\ report.valid)
    => (google_results.valid /\ google_results.issues = <<>>)

SchemaValidImpliesGoogleValidWitness ==
  /\ outcome = "returned"
  /\ google_outcome = "returned"
  /\ report.valid
  /\ google_results.valid
  /\ google_results.issues = <<>>
  /\ ~google_results.rich_results

\* C29: validate_with_google never raises, and in the dict it returns valid
\* is true exactly when issues is empty, on the short-circuit path, the
\* normal path and the path through the except clause alike.
GoogleValidIffNoIssues ==
  google_outcome # "idle" =>
    /\ google_outcome = "returned"
    /\ google_results.valid <=> google_results.issues = <<>>

\* the path validate_with_google took on the document
GooglePath(doc) ==
  LET type == Get(doc, "@type", PyNone)
  IN IF type.raised THEN "caught"
     ELSE IF type.value # Lit("FAQPage") THEN "short-circuit"
     ELSE IF GoogleMainEntity(doc, NewGoogleResults).raised THEN "caught"
     ELSE "normal"

GoogleValidIffNoIssuesWitness ==
  /\ google_outcome = "returned"
  /\ GooglePath(document) = "caught"
  /\ ~google_results.valid
  /\ Len(google_results.issues) = 1

(***************************************************************************)
(* Properties of generate_schema and validate_schema together              *)
(***************************************************************************)

\* a non-empty list of FAQs whose questions and answers are non-blank strs
NonBlankFaqs(faqs) ==
  /\ faqs.t = "list"
  /\ faqs.l # <<>>
  /\ \A i \in 1..Len(faqs.l) :
       /\ faqs.l[i].t = "dict"
       /\ {"question", "answer"} \subseteq DOMAIN faqs.l[i].d
       /\ NonBlankStr(faqs.l[i].d["question"])
       /\ NonBlankStr(faqs.l[i].d["answer"])

\* the document has one Question entity per FAQ, in the order of the FAQs
OneEntityPerFaq(doc, faqs) ==
  /\ doc.t = "dict"
  /\ "mainEntity" \in DOMAIN doc.d
  /\ doc.d["mainEntity"].t = "list"
  /\ Len(doc.d["mainEntity"].l) = Len(faqs.l)
  /\ \A i \in 1..Len(faqs.l) :
       LET entity == doc.d["mainEntity"].l[i]
       IN /\ entity.t = "dict"
          /\ {"@type", "name", "acceptedAnswer"} \subseteq DOMAIN entity.d
          /\ entity.d["@type"] = Lit("Question")
          /\ entity.d["name"] = faqs.l[i].d["question"]
          /\ entity.d["acceptedAnswer"].t = "dict"
          /\ "text" \in DOMAIN entity.d["acceptedAnswer"].d
          /\ entity.d["acceptedAnswer"].d["text"] = faqs.l[i].d["answer"]

\* C30: generate_schema on a non-empty list of FAQs whose questions and
\* answers are non-blank strs returns a document with one Question entity
\* per FAQ, in order, whose name is the question and whose answer text is
\* the answer, and validate_schema reports that document valid with no
\* issues; generate_schema on an empty list raises ValueError.
GenerateValidateRoundTrip ==
  /\ (generation.outcome # "idle" /\ NonBlankFaqs(generation.faqs)) =>
       /\ generation.outcome = "returned"
       /\ OneEntityPerFaq(document, generation.faqs)
       /\ outcome # "idle" =>
            (outcome = "returned" /\ report.valid /\ report.issues = <<>>)
  /\ (generation.outcome # "idle" /\ generation.faqs = PyList(<<>>)) =>
       /\ generation.outcome = "raised"
       /\ generation.error = "ValueError: No FAQs provided for schema generation"

GenerateValidateRoundTripWitness ==
  /\ generation.outcome = "returned"
  /\ NonBlankFaqs(generation.faqs)
  /\ Len(generation.faqs.l) >= 2
  /\ generation.faqs.l[1].d["question"] # generation.faqs.l[2].d["question"]
  /\ generation.faqs.l[1].d["answer"] # generation.faqs.l[2].d["answer"]
  /\ "category" \in DOMAIN generation.faqs.l[2].d
  /\ outcome = "returned"
  /\ report.valid
  /\ report.issues = <<>>
  /\ report.suggestions # <<>>
====
